---- MODULE Spec2Model ----
(***************************************************************************)
(* Replication test harness for a multi-node Cassandra cluster.            *)
(*                                                                         *)
(* main() runs five scenarios in sequence over the discovered node list:   *)
(* sql_test, nosql_test, disconnect_reconnect_test and network_limit_test  *)
(* twice.  Each scenario is a straight-line Python function whose external *)
(* calls (driver, podman, tc) either succeed, return a value chosen by the *)
(* environment, or raise.  One action models one such call together with   *)
(* the Python statements around it.                                        *)
(*                                                                         *)
(* Python lists are 0-based; the sequences below are 1-based, so Python    *)
(* nodes[0] is nodes[1] here.                                              *)
(***************************************************************************)
EXTENDS Integers, Sequences, FiniteSets, TLC

VARIABLES
    nodes,          \* main: the list returned by discover_nodes()
    mainPc,         \* main: the scenario main is at, "summary", or "exited"
    locals,         \* main: sql_ok, nosql_ok, disconnect_ok, network_ok once bound
    exitCode,       \* <<>> while running, <<c>> after sys.exit(c) / a traceback
    traceback,      \* TRUE when the run ended on an uncaught exception
    summary,        \* the summary line main logged: "none", "passed", "failed"
    called,         \* history: the scenario invocations main has started
    returned,       \* history: invocation -> the value the call returned
    raisedIn,       \* history: the invocations that ended by raising
    pc,             \* position inside the running scenario
    exc,            \* the exception being propagated ("" when none)
    ret,            \* the value of the scenario's return statement
    sessions,       \* node indices with a connected, not yet shut down session
    value,          \* the payload written by the scenario (<<>> before)
    readRows,       \* probe: the rows .one() returned, one per reader read so far
    success,        \* probe: the success flag
    inserted,       \* history: the insert of this scenario was acknowledged
    idx,            \* fault scenarios: index of the node chosen with randrange
    container_id,   \* fault scenarios: result of _get_container_id_for_port
    writer,         \* fault scenarios: index of the writer node (0 before)
    attempt,        \* disconnect: attempts made of the statement being retried
    row,            \* disconnect: the row read from the resumed node
    cmds,           \* history: the <<event, target>> of this scenario, in order
    shaped,         \* environment: containers carrying a tbf root qdisc
    count,          \* network: count(*) returned by the last poll read
    now,            \* network: wall clock, seconds since the scenario began
    start_time,     \* network: time.time() taken before the reader session
    elapsed,        \* network: the loop's elapsed variable
    timeout,        \* network: <<numerator, denominator>> of the computed timeout
    lastLatency,    \* history: duration of the last poll read
    polled,         \* history: "no", "converged" (break) or "timedout" (guard)
    insertedRows,   \* network: iterations done of the insert loop
    loop_start,     \* history: the clock when the poll loop was entered
    override,       \* discovery: os.getenv(env_var) as characters (<<>>: unset or empty)
    fallback_n,     \* discovery: the fallback_n argument
    containers,     \* discovery: the containers list built from `podman ps`
    queried,        \* history: discover_nodes has run `podman ps`
    skips,          \* script: the SKIP_SQL / SKIP_NOSQL variables that are set
    overall_ok,     \* script: the overall_ok flag
    rate,           \* network: the rate argument, as characters (<<>> outside)
    db,             \* database: the running scenario's keyspace, its table and rows
    execution,      \* schema setup: 1 in its first execution, 2 in its second
    dbBefore        \* history: db when the current execution of the setup began

discoveryVars == <<override, fallback_n, containers, queried>>
scriptVars == <<skips, overall_ok>>
argVars == <<rate>>
schemaVars == <<db, execution, dbBefore>>
mainVars == <<nodes, mainPc, locals, exitCode, traceback, summary, called, returned, raisedIn,
              discoveryVars, scriptVars, argVars, schemaVars>>
probeVars == <<readRows, success>>
faultVars == <<idx, container_id, writer, attempt, row>>
envVars == <<shaped>>
netVars == <<count, now, start_time, elapsed, timeout, lastLatency, polled, insertedRows, loop_start>>
vars == <<mainVars, pc, exc, ret, sessions, value, inserted, cmds, probeVars, faultVars, envVars, netVars>>

----------------------------------------------------------------------------
(* Bounds of the model *)

\* Largest node list explored.
MaxNodes == 3
MaxStored == 3

\* Most entries of an override string, most containers `podman ps` lists,
\* and the largest fallback_n discover_nodes is called with.
MaxEntries == 3
MaxContainers == 2
MaxFallback == 4

\* Longest duration, in seconds, of one poll read of the throttled node.
MaxReadLatency == 1

\* rows passed to network_limit_test.  main passes rows=500; the model scales
\* the number of inserts and the payload down so that the poll window is a
\* dozen one-second ticks instead of 400 and 3916.
Rows == 2

\* value_size of network_limit_test (default 10000), scaled down like Rows.
ValueSize == 640

----------------------------------------------------------------------------
(* Program constants *)

DefaultPort == 9042
BytesPerKbit == 128
Margin == 10
PollInterval == 1
RetryAttempts == 2

\* rate="100kbit" and rate="10kbit", as the characters of the string
Rate1 == <<"1", "0", "0", "k", "b", "i", "t">>
Rate2 == <<"1", "0", "k", "b", "i", "t">>

None == <<>>

\* The node lists discovery can hand to main: the fallback shape
\* localhost:9042, localhost:9043, ... of every length up to MaxNodes.
\* Host names are kept as the characters of the string.
Localhost == <<"l", "o", "c", "a", "l", "h", "o", "s", "t">>
LocalNodes(n) == [i \in 1..n |-> <<Localhost, DefaultPort + i - 1>>]

\* Two nodes on different hosts listening on the same port, as the override
\* "db,localhost" gives them
SamePortNodes == <<<<(<<"d", "b">>), DefaultPort>>, <<Localhost, DefaultPort>>>>

NodeLists == {LocalNodes(n) : n \in 1..MaxNodes} \cup {SamePortNodes}

Scenarios == <<"sql", "nosql", "disconnect", "network1", "network2">>
ScenarioSet == {Scenarios[i] : i \in 1..Len(Scenarios)}

\* sql_test writes a 12-character random string, nosql_test a dict
SqlValues == {"AbC123", "xYz789"}
Docs == {[user |-> "alice", score |-> "7"], [user |-> "bob", score |-> "7"]}
Payloads(s) == IF s = "sql" THEN SqlValues ELSE Docs

\* What session.execute(select).one() can hand back: no row, or a row
\* carrying some payload of the column's type.
RowsOf(s) == {None} \cup {<<v>> : v \in Payloads(s)}

----------------------------------------------------------------------------
(* Helpers shared by the scenarios *)

Raise(e) == pc' = "raise" /\ exc' = e

Return(v) == pc' = "return" /\ ret' = v /\ exc' = ""

Goto(l) == pc' = l /\ UNCHANGED <<exc, ret>>

InScenario(s) == mainPc = s /\ exitCode = <<>>

\* The keyspace of the running scenario in the database: whether it exists,
\* and its table, None when there is none and <<n>> when it holds n rows
NoKeyspace == [keyspace |-> FALSE, table |-> None]

\* What a scenario can find when it starts: nothing, its keyspace without the
\* table, or the table with the rows earlier runs left in it
Databases ==
    {NoKeyspace, [keyspace |-> TRUE, table |-> None]}
        \cup {[keyspace |-> TRUE, table |-> <<n>>] : n \in 0..MaxStored}

\* CREATE KEYSPACE IF NOT EXISTS
CreateKeyspaceIfNotExists(d) == [d EXCEPT !.keyspace = TRUE]

\* DROP TABLE IF EXISTS kv: the table goes, and its rows with it
DropTableIfExists(d) == [d EXCEPT !.table = None]

CreateTableReplace(d) == [d EXCEPT !.table = <<0>>]

\* CREATE TABLE kv, where it is accepted: an empty table where there was none
CreateTable(d) == IF d.table = None THEN [d EXCEPT !.table = <<0>>] ELSE d

\* INSERT of k further rows into kv
StoreRows(d, k) == [d EXCEPT !.table = <<d.table[1] + k>>]

InProbe == InScenario("sql") \/ InScenario("nosql")

\* `not row or row.value != value` of the probes and of the reconnect check
MismatchLoose(r, v) == r = None
Mismatch(r, v) == r = None \/ r[1] # v

----------------------------------------------------------------------------
(* sql_test / nosql_test *)

\* sessions = [make_session(h, p) for h, p in nodes], one connect per step
\* make_session(host, port): the cluster a session belongs to.  Its contact
\* point is host at the cluster-wide port; its load-balancing policy is
\* WhiteListRoundRobinPolicy([host]), an allow-list of host names.
MakeSession(host, port) ==
    [contact_points |-> <<host>>, port |-> port, allow |-> {host}]

\* Whether the allow-list of a session's policy admits a node: the policy
\* compares the node's host with the listed hosts and knows no port.
Admits(session, node) == node[1] \in session.allow

\* The cluster configuration of the open session to node i (sessions holds
\* the indices of the nodes a session is open to)
SessionOf(i) == MakeSession(nodes[i][1], nodes[i][2])

ProbeMakeSession ==
    /\ InProbe /\ pc = "p_sessions"
    /\ LET k == Cardinality(sessions) + 1 IN
       \/ /\ sessions' = sessions \cup {k}
          /\ Goto(IF k = Len(nodes) THEN "p_keyspace" ELSE "p_sessions")
       \/ /\ Raise("NoHostAvailable")
          /\ UNCHANGED <<sessions, ret>>
    /\ UNCHANGED <<mainVars, value, inserted, cmds, probeVars, faultVars, envVars, netVars>>

\* writer.execute(CREATE KEYSPACE IF NOT EXISTS ...)
ProbeCreateKeyspace ==
    /\ InProbe /\ pc = "p_keyspace"
    /\ \/ Goto("p_set_keyspace")
       \/ Raise("DriverError") /\ UNCHANGED ret
    /\ UNCHANGED <<mainVars, sessions, value, inserted, cmds, probeVars, faultVars, envVars, netVars>>

\* for session in sessions: session.set_keyspace(keyspace)
ProbeSetKeyspace ==
    /\ InProbe /\ pc = "p_set_keyspace"
    /\ \/ Goto("p_table")
       \/ Raise("DriverError") /\ UNCHANGED ret
    /\ UNCHANGED <<mainVars, sessions, value, inserted, cmds, probeVars, faultVars, envVars, netVars>>

\* writer.execute(CREATE TABLE IF NOT EXISTS ...)
ProbeCreateTable ==
    /\ InProbe /\ pc = "p_table"
    /\ \/ Goto("p_insert")
       \/ Raise("DriverError") /\ UNCHANGED ret
    /\ UNCHANGED <<mainVars, sessions, value, inserted, cmds, probeVars, faultVars, envVars, netVars>>

\* ProbeInsert with the insert wrapped in a handler that swallows its failure
ProbeInsertSwallow ==
    /\ (mainPc \in {"sql", "nosql"} /\ exitCode = <<>>) /\ pc = "p_insert"
    /\ \E v \in Payloads(mainPc) :
        /\ value' = <<v>>
        /\ \/ inserted' = TRUE
           \/ inserted' = FALSE
        /\ success' = TRUE
        /\ pc' = (IF Len(nodes) > 1 THEN "p_read" ELSE "p_shutdown")
        /\ UNCHANGED <<exc, ret>>
    /\ UNCHANGED <<mainVars, sessions, cmds, readRows, faultVars, envVars, netVars>>

\* row_id, value = fresh; writer.execute(writer.prepare(INSERT), (row_id, value))
\* then time.sleep(2), writer.prepare(SELECT) and success = True
ProbeInsert ==
    /\ InProbe /\ pc = "p_insert"
    /\ \E v \in Payloads(mainPc) :
        /\ value' = <<v>>
        /\ \/ /\ inserted' = TRUE
              /\ success' = TRUE
              /\ Goto(IF Len(nodes) > 1 THEN "p_read" ELSE "p_shutdown")
           \/ /\ Raise("DriverError")
              /\ UNCHANGED <<ret, inserted, success>>
    /\ UNCHANGED <<mainVars, sessions, cmds, readRows, faultVars, envVars, netVars>>

\* Where the reader loop goes after its k-th read: to the next reader while
\* zip(nodes[1:], readers) has one, whether or not the read matched
AfterReadAbort(k, mismatch) ==
    IF mismatch \/ k + 1 = Len(nodes) THEN "p_shutdown" ELSE "p_read"
AfterRead(k, mismatch) ==
    IF k + 1 = Len(nodes) THEN "p_shutdown" ELSE "p_read"

\* one iteration of `for (host, port), session in zip(nodes[1:], readers)`:
\* the k-th iteration reads nodes[k] of Python, node k + 1 here
ProbeRead ==
    /\ InProbe /\ pc = "p_read"
    /\ cmds' = Append(cmds, <<"read", Len(readRows) + 2>>)
    /\ \/ \E r \in RowsOf(mainPc) :
            /\ readRows' = Append(readRows, r)
            /\ success' = IF Mismatch(r, value[1]) THEN FALSE ELSE success
            /\ Goto(AfterRead(Len(readRows) + 1, Mismatch(r, value[1])))
       \/ /\ Raise("DriverError")
          /\ UNCHANGED <<ret, readRows, success>>
    /\ UNCHANGED <<mainVars, sessions, value, inserted, faultVars, envVars, netVars>>

\* for session in sessions: session.cluster.shutdown(); return success
ProbeShutdown ==
    /\ InProbe /\ pc = "p_shutdown"
    /\ sessions' = {}
    /\ Return(success)
    /\ UNCHANGED <<mainVars, value, inserted, cmds, probeVars, faultVars, envVars, netVars>>

----------------------------------------------------------------------------
(* disconnect_reconnect_test *)

\* Positions of an event in the scenario's history
At(e) == {i \in 1..Len(cmds) : cmds[i] = e}
Issued(e) == At(e) # {}
Log(e) == cmds' = Append(cmds, e)

Port(i) == nodes[i][2]

\* _get_container_id_for_port: the id of the running container publishing the
\* port, None when there is none; a container is identified by that port
ContainerLookups(port) == {None, <<port>>}

\* idx = random.randrange(len(nodes)); container_id = _get_container_id_for_port(port)
\* if not container_id: return False
DiscChoose ==
    /\ InScenario("disconnect") /\ pc = "d_choose"
    /\ \E i \in 1..Len(nodes) :
        /\ idx' = i
        /\ \/ \E c \in ContainerLookups(Port(i)) :
                /\ container_id' = c
                /\ IF c = None THEN Return(FALSE) ELSE Goto("d_pause")
           \/ /\ Raise("FileNotFoundError")
              /\ UNCHANGED <<ret, container_id>>
    /\ UNCHANGED <<mainVars, sessions, value, inserted, cmds, probeVars, writer, attempt, row, envVars, netVars>>

\* subprocess.run(["podman", "pause", container_id], check=True)
DiscPause ==
    /\ InScenario("disconnect") /\ pc = "d_pause"
    /\ Log(<<"pause", container_id>>)
    /\ \/ Goto("d_writer")
       \/ Raise("CalledProcessError") /\ UNCHANGED ret
    /\ UNCHANGED <<mainVars, sessions, value, inserted, probeVars, faultVars, envVars, netVars>>

\* random.choice([(s, v) for s, v in nodes if v != port_to_pause])
WriterCandidates == {i \in 1..Len(nodes) : Port(i) # Port(idx)}

\* writer_session = make_session(writer_host, writer_port)
DiscWriter ==
    /\ InScenario("disconnect") /\ pc = "d_writer"
    /\ IF WriterCandidates = {}
          THEN Raise("IndexError") /\ UNCHANGED <<ret, writer, sessions, cmds>>
          ELSE \E w \in WriterCandidates :
                /\ writer' = w
                /\ Log(<<"connect", w>>)
                /\ \/ sessions' = sessions \cup {w} /\ Goto("d_keyspace")
                   \/ Raise("NoHostAvailable") /\ UNCHANGED <<ret, sessions>>
    /\ UNCHANGED <<mainVars, value, inserted, probeVars, idx, container_id, attempt, row, envVars, netVars>>

\* Whether the attempt after `a` earlier ones is the last: the nested try of
\* the keyspace statement and `for attempt in range(2)` of the other two
ExhaustedLate(a) == a + 1 > RetryAttempts
Exhausted(a) == a + 1 >= RetryAttempts

\* One attempt of a statement that is retried on OperationTimedOut: on success
\* go to `next`; on the first timeout try again; on the second shut the writer
\* session down and return False; any other exception propagates.
Retried(step, next) ==
    \/ /\ attempt' = 0
       /\ Log(<<step, writer>>)
       /\ Goto(next)
       /\ UNCHANGED sessions
    \/ /\ ~Exhausted(attempt)
       /\ attempt' = attempt + 1
       /\ cmds' = cmds \o <<<<step, writer>>, <<"timeout", writer>>>>
       /\ Goto(pc)
       /\ UNCHANGED sessions
    \/ /\ Exhausted(attempt)
       /\ attempt' = 0
       /\ cmds' = cmds \o <<<<step, writer>>, <<"timeout", writer>>>>
       /\ sessions' = sessions \ {writer}
       /\ Return(FALSE)
    \/ /\ Raise("DriverError")
       /\ Log(<<step, writer>>)
       /\ UNCHANGED <<ret, attempt, sessions>>

\* CREATE KEYSPACE IF NOT EXISTS, retried once on OperationTimedOut
DiscCreateKeyspace ==
    /\ InScenario("disconnect") /\ pc = "d_keyspace"
    /\ Retried("keyspace", "d_set_keyspace")
    /\ UNCHANGED <<mainVars, value, inserted, probeVars, idx, container_id, writer, row, envVars, netVars>>

\* writer_session.set_keyspace(keyspace)
DiscSetKeyspace ==
    /\ InScenario("disconnect") /\ pc = "d_set_keyspace"
    /\ \/ Goto("d_table")
       \/ Raise("DriverError") /\ UNCHANGED ret
    /\ UNCHANGED <<mainVars, sessions, value, inserted, cmds, probeVars, faultVars, envVars, netVars>>

\* for attempt in range(2): CREATE TABLE IF NOT EXISTS ... else: return False
DiscCreateTable ==
    /\ InScenario("disconnect") /\ pc = "d_table"
    /\ Retried("table", "d_prepare")
    /\ UNCHANGED <<mainVars, value, inserted, probeVars, idx, container_id, writer, row, envVars, netVars>>

\* test_id, test_value = fresh; prepared = writer_session.prepare(INSERT)
DiscPrepare ==
    /\ InScenario("disconnect") /\ pc = "d_prepare"
    /\ \E v \in SqlValues : value' = <<v>>
    /\ \/ Goto("d_insert")
       \/ Raise("DriverError") /\ UNCHANGED ret
    /\ UNCHANGED <<mainVars, sessions, inserted, cmds, probeVars, faultVars, envVars, netVars>>

\* for attempt in range(2): writer_session.execute(prepared, ...) else: return False
DiscInsert ==
    /\ InScenario("disconnect") /\ pc = "d_insert"
    /\ Retried("insert", "d_unpause")
    /\ inserted' = (pc' = "d_unpause")
    /\ UNCHANGED <<mainVars, value, probeVars, idx, container_id, writer, row, envVars, netVars>>

\* subprocess.run(["podman", "unpause", container_id], check=True); time.sleep(10)
DiscUnpause ==
    /\ InScenario("disconnect") /\ pc = "d_unpause"
    /\ Log(<<"unpause", container_id>>)
    /\ \/ Goto("d_resumed")
       \/ Raise("CalledProcessError") /\ UNCHANGED ret
    /\ UNCHANGED <<mainVars, sessions, value, inserted, probeVars, faultVars, envVars, netVars>>

\* resumed_session = make_session(host_to_pause, port_to_pause)
DiscMakeResumed ==
    /\ InScenario("disconnect") /\ pc = "d_resumed"
    /\ Log(<<"connect", idx>>)
    /\ \/ sessions' = sessions \cup {idx} /\ Goto("d_resumed_setup")
       \/ Raise("NoHostAvailable") /\ UNCHANGED <<ret, sessions>>
    /\ UNCHANGED <<mainVars, value, inserted, probeVars, faultVars, envVars, netVars>>

\* resumed_session.set_keyspace(keyspace); select_stmt = resumed_session.prepare(SELECT)
DiscResumedSetup ==
    /\ InScenario("disconnect") /\ pc = "d_resumed_setup"
    /\ \/ Goto("d_read")
       \/ Raise("DriverError") /\ UNCHANGED ret
    /\ UNCHANGED <<mainVars, sessions, value, inserted, cmds, probeVars, faultVars, envVars, netVars>>

\* try: row = resumed_session.execute(select_stmt, (test_id,)).one()
\* except OperationTimedOut: row = None
DiscRead ==
    /\ InScenario("disconnect") /\ pc = "d_read"
    /\ \/ /\ \E r \in RowsOf("sql") : row' = r
          /\ Log(<<"read", idx>>)
          /\ Goto("d_verify")
       \/ /\ row' = None
          /\ cmds' = cmds \o <<<<"read", idx>>, <<"read_timeout", idx>>>>
          /\ Goto("d_verify")
       \/ /\ Raise("DriverError")
          /\ Log(<<"read", idx>>)
          /\ UNCHANGED <<ret, row>>
    /\ UNCHANGED <<mainVars, sessions, value, inserted, probeVars, idx, container_id, writer, attempt, envVars, netVars>>

\* DiscVerify letting a missing row escape as an exception
DiscVerifyRaise ==
    /\ (mainPc = "disconnect" /\ exitCode = <<>>) /\ pc = "d_verify"
    /\ sessions' = sessions \ {writer, idx}
    /\ IF row = None
         THEN pc' = "raise" /\ exc' = "TypeError" /\ UNCHANGED ret
         ELSE pc' = "return" /\ ret' = (row[1] = value[1]) /\ exc' = ""
    /\ UNCHANGED <<mainVars, value, inserted, cmds, probeVars, faultVars, envVars, netVars>>

\* writer_session.cluster.shutdown(); resumed_session.cluster.shutdown()
\* if not row or row.value != test_value: return False ... return True
DiscVerify ==
    /\ InScenario("disconnect") /\ pc = "d_verify"
    /\ sessions' = sessions \ {writer, idx}
    /\ Return(~Mismatch(row, value[1]))
    /\ UNCHANGED <<mainVars, value, inserted, cmds, probeVars, faultVars, envVars, netVars>>

----------------------------------------------------------------------------
(* network_limit_test *)

\* The rate argument main passes to each invocation
RateOf(s) == IF s = "network1" THEN Rate1 ELSE Rate2

\* The rate argument main passes to a scenario: only network_limit_test has one
ArgRate(s) == IF s \in {"network1", "network2"} THEN RateOf(s) ELSE None

InNetwork == InScenario("network1") \/ InScenario("network2")

\* str.rstrip(chars): drop every trailing character that is in chars
RECURSIVE RStrip(_, _)
RStrip(s, chars) ==
    IF s # <<>> /\ s[Len(s)] \in chars
       THEN RStrip(SubSeq(s, 1, Len(s) - 1), chars)
       ELSE s

Digits == <<"0", "1", "2", "3", "4", "5", "6", "7", "8", "9">>
IsDigit(c) == \E d \in 1..Len(Digits) : Digits[d] = c
DigitValue(c) == (CHOOSE d \in 1..Len(Digits) : Digits[d] = c) - 1

RECURSIVE DecimalValue(_)
DecimalValue(s) ==
    IF s = <<>> THEN 0
    ELSE 10 * DecimalValue(SubSeq(s, 1, Len(s) - 1)) + DigitValue(s[Len(s)])

\* int(text): <<n>> for a non-empty run of digits, None for ValueError
ParseInt(s) ==
    IF s # <<>> /\ \A i \in 1..Len(s) : IsDigit(s[i])
       THEN <<DecimalValue(s)>>
       ELSE None

\* int(rate.rstrip("kbit"))
RateKbit(text) == ParseInt(RStrip(text, {"k", "b", "i", "t"}))

\* Number of digits a text starts with
LeadingDigits(text) ==
    Cardinality({k \in 1..Len(text) : \A j \in 1..k : IsDigit(text[j])})

\* The unit of a rate text: what follows its leading digits
UnitOf(text) == SubSeq(text, LeadingDigits(text) + 1, Len(text))

Kbit == <<"k", "b", "i", "t">>

\* `tc ... rate <text>`: tc takes a number followed by one of its rate units
\* and exits non-zero on anything else
TcRateUnits ==
    { <<"b", "i", "t">>, Kbit, <<"m", "b", "i", "t">>, <<"g", "b", "i", "t">>,
      <<"b", "p", "s">>, <<"k", "b", "p", "s">>, <<"m", "b", "p", "s">> }
TcAccepts(text) == LeadingDigits(text) >= 1 /\ UnitOf(text) \in TcRateUnits

\* tc's kbit is 1000 bits per second, which is this many bytes per second
TcBytesPerKbit == 1000 \div 8

\* Rate arguments network_limit_test can be called with
Rates ==
    { Rate1, Rate2, <<"1">> \o Kbit,
      <<"8", "b", "i", "t">>, <<"1", "m", "b", "i", "t">>, <<"5", "k", "b">> }

\* rows * value_size / (kbit * 128) + 10, kept as an exact fraction <<num, den>>
PollTimeout(rows, value_size, kbit) ==
    <<rows * value_size + Margin * kbit * BytesPerKbit, kbit * BytesPerKbit>>

\* What count(*) on the throttled node can return, as far as `count >= rows`
\* can tell: all the rows, or one short of them
Counts == {c \in {Rows - 1, Rows} : c >= 0}

\* `elapsed < timeout`
GuardLoose(e, t) == e * t[2] <= t[1]
Guard(e, t) == e * t[2] < t[1]

\* idx = random.randrange(len(nodes)); container_id = _get_container_id_for_port(port_thr)
\* if not container_id: return False
NetChoose ==
    /\ InNetwork /\ pc = "n_choose"
    /\ \E i \in 1..Len(nodes) :
        /\ idx' = i
        /\ \/ \E c \in ContainerLookups(Port(i)) :
                /\ container_id' = c
                /\ IF c = None THEN Return(FALSE) ELSE Goto("n_tc_add")
           \/ /\ Raise("FileNotFoundError")
              /\ UNCHANGED <<ret, container_id>>
    /\ UNCHANGED <<mainVars, sessions, value, inserted, cmds, probeVars, writer, attempt, row, envVars, netVars>>

\* NetThrottle with the writer session opened before the install is tried
NetThrottleLate ==
    /\ (mainPc \in {"network1", "network2"} /\ exitCode = <<>>) /\ pc = "n_tc_add"
    /\ \/ /\ container_id \notin shaped
          /\ TcAccepts(rate)
          /\ shaped' = shaped \cup {container_id}
          /\ cmds' = cmds \o <<<<"tc_add", container_id>>, <<"installed", container_id>>>>
          /\ pc' = "n_writer" /\ UNCHANGED <<exc, ret, sessions>>
       \/ /\ cmds' = Append(cmds, <<"tc_add", container_id>>)
          /\ sessions' = sessions \cup {IF idx # 1 THEN 1 ELSE 2}
          /\ pc' = "return" /\ ret' = FALSE /\ exc' = ""
          /\ UNCHANGED shaped
    /\ UNCHANGED <<mainVars, value, inserted, probeVars, faultVars, netVars>>

\* podman exec <id> tc qdisc add dev eth0 root tbf rate .. burst .. latency ..
\* except CalledProcessError: return False.  The kernel refuses a second root
\* qdisc on an interface that still carries one, and tc refuses a rate it
\* cannot read.
NetThrottle ==
    /\ InNetwork /\ pc = "n_tc_add"
    /\ \/ /\ container_id \notin shaped
          /\ TcAccepts(rate)
          /\ shaped' = shaped \cup {container_id}
          /\ cmds' = cmds \o <<<<"tc_add", container_id>>, <<"installed", container_id>>>>
          /\ Goto("n_writer")
       \/ /\ Log(<<"tc_add", container_id>>)
          /\ Return(FALSE)
          /\ UNCHANGED shaped
    /\ UNCHANGED <<mainVars, sessions, value, inserted, probeVars, faultVars, netVars>>

\* writer_index = 0 if idx != 0 else 1
WriterIndex(i) == IF i # 1 THEN 1 ELSE 2

\* writer_session = make_session(writer_host, writer_port)
NetWriter ==
    /\ InNetwork /\ pc = "n_writer"
    /\ writer' = WriterIndex(idx)
    /\ Log(<<"connect", writer'>>)
    /\ \/ sessions' = sessions \cup {writer'} /\ Goto("n_keyspace")
       \/ Raise("NoHostAvailable") /\ UNCHANGED <<ret, sessions>>
    /\ UNCHANGED <<mainVars, value, inserted, probeVars, idx, container_id, attempt, row, envVars, netVars>>

\* writer_session.execute(CREATE KEYSPACE IF NOT EXISTS ...)
NetCreateKeyspace ==
    /\ InNetwork /\ pc = "n_keyspace"
    /\ \/ Goto("n_set_keyspace")
       \/ Raise("DriverError") /\ UNCHANGED ret
    /\ UNCHANGED <<mainVars, sessions, value, inserted, cmds, probeVars, faultVars, envVars, netVars>>

\* writer_session.set_keyspace(keyspace)
NetSetKeyspace ==
    /\ InNetwork /\ pc = "n_set_keyspace"
    /\ \/ Goto("n_drop_table")
       \/ Raise("DriverError") /\ UNCHANGED ret
    /\ UNCHANGED <<mainVars, sessions, value, inserted, cmds, probeVars, faultVars, envVars, netVars>>

\* writer_session.execute("DROP TABLE IF EXISTS kv")
NetDropTable ==
    /\ InNetwork /\ pc = "n_drop_table"
    /\ \/ Goto("n_create_table")
       \/ Raise("DriverError") /\ UNCHANGED ret
    /\ UNCHANGED <<mainVars, sessions, value, inserted, cmds, probeVars, faultVars, envVars, netVars>>

\* writer_session.execute("CREATE TABLE kv (...)")
NetCreateTable ==
    /\ InNetwork /\ pc = "n_create_table"
    /\ \/ Goto(IF Rows > 0 THEN "n_insert" ELSE "n_reader")
       \/ Raise("DriverError") /\ UNCHANGED ret
    /\ UNCHANGED <<mainVars, sessions, value, inserted, cmds, probeVars, faultVars, envVars, netVars>>

\* one iteration of `for _ in range(rows)`: prepare and execute the INSERT
NetInsert ==
    /\ InNetwork /\ pc = "n_insert"
    /\ \/ /\ insertedRows' = insertedRows + 1
          /\ inserted' = (insertedRows' = Rows)
          /\ Goto(IF insertedRows' = Rows THEN "n_reader" ELSE "n_insert")
       \/ /\ Raise("DriverError")
          /\ UNCHANGED <<ret, insertedRows, inserted>>
    /\ UNCHANGED <<mainVars, sessions, value, cmds, probeVars, faultVars, envVars,
                   count, now, start_time, elapsed, timeout, lastLatency, polled, loop_start>>

\* start_time = time.time(); reader_session = make_session(host_thr, port_thr)
\* The connect takes d seconds.
NetReader ==
    /\ InNetwork /\ pc = "n_reader"
    /\ start_time' = now
    /\ Log(<<"connect", idx>>)
    /\ \E d \in 0..MaxReadLatency :
        /\ now' = now + d
        /\ \/ sessions' = sessions \cup {idx} /\ Goto("n_reader_setup")
           \/ Raise("NoHostAvailable") /\ UNCHANGED <<ret, sessions>>
    /\ UNCHANGED <<mainVars, value, inserted, probeVars, faultVars, envVars,
                   count, elapsed, timeout, lastLatency, polled, insertedRows, loop_start>>

\* reader_session.set_keyspace(keyspace)
NetReaderSetup ==
    /\ InNetwork /\ pc = "n_reader_setup"
    /\ \/ Goto("n_timeout")
       \/ Raise("DriverError") /\ UNCHANGED ret
    /\ UNCHANGED <<mainVars, sessions, value, inserted, cmds, probeVars, faultVars, envVars, netVars>>

\* timeout = rows * value_size / (int(rate.rstrip("kbit")) * 128) + 10; elapsed = 0.0
NetTimeout ==
    /\ InNetwork /\ pc = "n_timeout"
    /\ LET k == RateKbit(rate) IN
       IF k = None
          THEN Raise("ValueError") /\ UNCHANGED <<ret, timeout, elapsed, loop_start>>
          ELSE IF k[1] = 0
             THEN Raise("ZeroDivisionError") /\ UNCHANGED <<ret, timeout, elapsed, loop_start>>
             ELSE /\ timeout' = PollTimeout(Rows, ValueSize, k[1])
                  /\ elapsed' = 0
                  /\ loop_start' = now
                  /\ Goto("n_poll")
    /\ UNCHANGED <<mainVars, sessions, value, inserted, cmds, probeVars, faultVars, envVars,
                   count, now, start_time, lastLatency, polled, insertedRows>>

\* while elapsed < timeout: result = reader_session.execute(count(*)).one()
\* count = result[0] if result else 0; if count >= rows: break
\* The read takes d seconds.
NetPollRead ==
    /\ InNetwork /\ pc = "n_poll"
    /\ Guard(elapsed, timeout)
    /\ \E d \in 0..MaxReadLatency :
        /\ now' = now + d
        /\ lastLatency' = d
        /\ \/ \E c \in Counts :
                /\ count' = c
                /\ IF c >= Rows
                      THEN polled' = "converged" /\ Goto("n_cleanup")
                      ELSE polled' = polled /\ Goto("n_sleep")
           \/ /\ Raise("DriverError")
              /\ UNCHANGED <<ret, count, polled>>
    /\ UNCHANGED <<mainVars, sessions, value, inserted, cmds, probeVars, faultVars, envVars,
                   start_time, elapsed, timeout, insertedRows, loop_start>>

\* time.sleep(1); elapsed = time.time() - start_time
NetPollSleep ==
    /\ InNetwork /\ pc = "n_sleep"
    /\ now' = now + PollInterval
    /\ elapsed' = now' - start_time
    /\ Goto("n_poll")
    /\ UNCHANGED <<mainVars, sessions, value, inserted, cmds, probeVars, faultVars, envVars,
                   count, start_time, timeout, lastLatency, polled, insertedRows, loop_start>>

\* the loop guard `elapsed < timeout` found false
NetPollExit ==
    /\ InNetwork /\ pc = "n_poll"
    /\ ~Guard(elapsed, timeout)
    /\ polled' = "timedout"
    /\ Goto("n_cleanup")
    /\ UNCHANGED <<mainVars, sessions, value, inserted, cmds, probeVars, faultVars, envVars,
                   count, now, start_time, elapsed, timeout, lastLatency, insertedRows, loop_start>>

\* NetCleanup without the except clause
NetCleanupRaise ==
    /\ (mainPc \in {"network1", "network2"} /\ exitCode = <<>>) /\ pc = "n_cleanup"
    /\ \/ /\ shaped' = shaped \ {container_id}
          /\ cmds' = Append(cmds, <<"tc_del", container_id>>)
          /\ pc' = "n_shutdown" /\ UNCHANGED <<exc, ret>>
       \/ /\ UNCHANGED shaped
          /\ cmds' = cmds \o <<<<"tc_del", container_id>>, <<"warning", container_id>>>>
          /\ pc' = "raise" /\ exc' = "CalledProcessError" /\ UNCHANGED ret
    /\ UNCHANGED <<mainVars, sessions, value, inserted, probeVars, faultVars, netVars>>

\* podman exec <id> tc qdisc del dev eth0 root
\* except CalledProcessError: log a warning
NetCleanup ==
    /\ InNetwork /\ pc = "n_cleanup"
    /\ \/ /\ shaped' = shaped \ {container_id}
          /\ Log(<<"tc_del", container_id>>)
       \/ /\ UNCHANGED shaped
          /\ cmds' = cmds \o <<<<"tc_del", container_id>>, <<"warning", container_id>>>>
    /\ Goto("n_shutdown")
    /\ UNCHANGED <<mainVars, sessions, value, inserted, probeVars, faultVars, netVars>>

\* writer_session.cluster.shutdown(); reader_session.cluster.shutdown(); return True
NetShutdown ==
    /\ InNetwork /\ pc = "n_shutdown"
    /\ sessions' = sessions \ {writer, idx}
    /\ Return(TRUE)
    /\ UNCHANGED <<mainVars, value, inserted, cmds, probeVars, faultVars, envVars, netVars>>

----------------------------------------------------------------------------
(* discover_nodes *)

\* Everything discover_nodes leaves alone
notDiscovery == <<mainPc, locals, exitCode, traceback, summary, called, returned, raisedIn,
                  scriptVars, argVars, schemaVars, ret, sessions, value, inserted, cmds, probeVars, faultVars,
                  envVars, netVars>>

\* Position of the first occurrence of character c in s, 0 when there is none
FirstIndex(s, c) ==
    IF \E i \in 1..Len(s) : s[i] = c
       THEN CHOOSE i \in 1..Len(s) : s[i] = c /\ \A j \in 1..(i - 1) : s[j] # c
       ELSE 0

\* str.split(sep) for a one-character separator
RECURSIVE Split(_, _)
Split(s, sep) ==
    LET k == FirstIndex(s, sep) IN
    IF k = 0 THEN <<s>>
    ELSE <<SubSeq(s, 1, k - 1)>> \o Split(SubSeq(s, k + 1, Len(s)), sep)

\* str.partition(sep): <<head, separator, tail>>, cut at the first separator
Partition(s, sep) ==
    LET k == FirstIndex(s, sep) IN
    IF k = 0 THEN <<s, <<>>, <<>>>>
    ELSE <<SubSeq(s, 1, k - 1), <<sep>>, SubSeq(s, k + 1, Len(s))>>

\* ParseSpec reading no port at all
ParseSpecPortless(spec) ==
    <<IF Partition(spec, ":")[1] = <<>> THEN Localhost ELSE Partition(spec, ":")[1],
      <<DefaultPort>>>>

\* (spec.partition(":")[0] or "localhost", int(spec.partition(":")[2] or 9042));
\* the port is <<n>>, or None where int() raises ValueError
ParseSpec(spec) ==
    <<IF Partition(spec, ":")[1] = <<>> THEN Localhost ELSE Partition(spec, ":")[1],
      IF Partition(spec, ":")[3] = <<>> THEN <<DefaultPort>>
      ELSE ParseInt(Partition(spec, ":")[3])>>

\* [(...) for spec in override.split(",")]: the node list, or None where one
\* of the int() calls raises
ParseOverride(text) ==
    LET specs == Split(text, ",")
        parsed == [i \in 1..Len(specs) |-> ParseSpec(specs[i])]
    IN IF \E i \in 1..Len(parsed) : parsed[i][2] = None
          THEN None
          ELSE [i \in 1..Len(parsed) |-> <<parsed[i][1], parsed[i][2][1]>>]

\* Override strings.  An entry is <<host>> or <<host, port>>; it is written
\* host or host:port, the port in decimal, and entries are joined by commas.
RECURSIVE Decimal(_)
Decimal(n) ==
    IF n < 10 THEN <<Digits[n + 1]>>
    ELSE Decimal(n \div 10) \o <<Digits[(n % 10) + 1]>>

EntryHosts == {<<"d", "b">>, <<"1", "0", ".", "0", ".", "0", ".", "7">>}
EntryPorts == {19042}
Entries == {<<h>> : h \in EntryHosts} \cup {<<h, p>> : h \in EntryHosts, p \in EntryPorts}
EntryLists == UNION {[1..k -> Entries] : k \in 1..MaxEntries}

RenderEntry(e) == IF Len(e) = 1 THEN e[1] ELSE e[1] \o <<":">> \o Decimal(e[2])

RECURSIVE Render(_)
Render(es) ==
    IF Len(es) = 1 THEN RenderEntry(es[1])
    ELSE RenderEntry(es[1]) \o <<",">> \o Render(Tail(es))

\* Overrides outside that form: no host, a colon without a port, a port that
\* is not a number, an empty entry
OddOverrides ==
    { <<":", "9", "0", "4", "3">>,
      <<"d", "b", ":">>,
      <<"d", "b", ":", "x">>,
      <<"d", "b", ",", ",", "d", "b">> }

Overrides == {<<>>} \cup {Render(es) : es \in EntryLists} \cup OddOverrides

\* What `podman ps --format json` lists.  A container has its Names and its
\* Ports: <<list>> for a list of port mappings, None for null.  A mapping may
\* lack host_port.
Published(p) == [container_port |-> DefaultPort, protocol |-> "tcp", host_port |-> p]
PortLists ==
    { <<>>,
      <<Published(DefaultPort)>>,
      <<[container_port |-> 7000, protocol |-> "tcp", host_port |-> 7000],
        Published(DefaultPort + 1)>>,
      <<[container_port |-> DefaultPort, protocol |-> "udp", host_port |-> 9050],
        Published(DefaultPort + 2)>>,
      <<[container_port |-> DefaultPort, protocol |-> "tcp"],
        Published(DefaultPort + 3), Published(DefaultPort)>>,
      <<[container_port |-> DefaultPort, protocol |-> "tcp", host_port |-> 0]>> }
ContainerNames ==
    { <<"C", "a", "s", "s", "a", "n", "d", "r", "a", "-", "1">>,
      <<"r", "e", "d", "i", "s">> }
Containers ==
    [Names : {<<n>> : n \in ContainerNames}, Ports : {<<l>> : l \in PortLists} \cup {None}]
ContainerLists == UNION {[1..k -> Containers] : k \in 0..MaxContainers}

\* dict.get(key, default)
Get(d, key, default) == IF key \in DOMAIN d THEN d[key] ELSE default

\* " ".join(names)
RECURSIVE Join(_)
Join(names) ==
    IF names = <<>> THEN <<>>
    ELSE IF Len(names) = 1 THEN names[1]
    ELSE names[1] \o <<" ">> \o Join(Tail(names))

\* str.lower() on ASCII letters
Uppers == <<"A", "B", "C", "D", "E", "F", "G", "H", "I", "J", "K", "L", "M",
            "N", "O", "P", "Q", "R", "S", "T", "U", "V", "W", "X", "Y", "Z">>
Lowers == <<"a", "b", "c", "d", "e", "f", "g", "h", "i", "j", "k", "l", "m",
            "n", "o", "p", "q", "r", "s", "t", "u", "v", "w", "x", "y", "z">>
Lower(s) ==
    [i \in 1..Len(s) |->
        IF \E k \in 1..Len(Uppers) : Uppers[k] = s[i]
           THEN Lowers[CHOOSE k \in 1..Len(Uppers) : Uppers[k] = s[i]]
           ELSE s[i]]

\* sub in s
Contains(sub, s) ==
    \E i \in 1..(Len(s) - Len(sub) + 1) : SubSeq(s, i, i + Len(sub) - 1) = sub

Cassandra == <<"c", "a", "s", "s", "a", "n", "d", "r", "a">>

\* "cassandra" in cname.lower()
IsCassandra(c) == Contains(Cassandra, Lower(Join(c.Names)))

\* for port_info in container.get("Ports", []): the host_port of the first
\* mapping of 9042/tcp whose host_port is truthy, 0 when the loop ends
\* without one
RECURSIVE FirstHostPort(_)
FirstHostPort(ports) ==
    IF ports = <<>> THEN 0
    ELSE IF /\ Head(ports).container_port = DefaultPort
            /\ Head(ports).protocol = "tcp"
            /\ Get(Head(ports), "host_port", 0) # 0
         THEN Get(Head(ports), "host_port", 0)
         ELSE FirstHostPort(Tail(ports))

\* for container in containers: ... nodes.append(("localhost", host_port))
RECURSIVE ScanContainers(_)
ScanContainers(cs) ==
    IF cs = <<>> THEN <<>>
    ELSE (IF IsCassandra(Head(cs)) /\ FirstHostPort(Head(cs).Ports[1]) # 0
             THEN <<<<Localhost, FirstHostPort(Head(cs).Ports[1])>>>>
             ELSE <<>>) \o ScanContainers(Tail(cs))

\* Iterating a container's Ports raises TypeError where it is null
ScanRaises(cs) == \E i \in 1..Len(cs) : IsCassandra(cs[i]) /\ cs[i].Ports = None

\* Python truth of a string or list
TruthyNever(x) == FALSE
Truthy(x) == x # <<>>

\* override = os.getenv(env_var); if override: return [...]
DiscoverOverride ==
    /\ mainPc = "start" /\ pc = "v_env"
    /\ IF Truthy(override)
          THEN IF ParseOverride(override) = None
                  THEN Raise("ValueError") /\ UNCHANGED nodes
                  ELSE nodes' = ParseOverride(override) /\ pc' = "return" /\ UNCHANGED exc
          ELSE pc' = "v_podman" /\ UNCHANGED <<exc, nodes>>
    /\ UNCHANGED <<discoveryVars, notDiscovery>>

\* containers = json.loads(subprocess.check_output(["podman", "ps", ...]))
\* except subprocess.CalledProcessError: containers = []
\* A missing podman executable raises FileNotFoundError, which is not caught.
DiscoverPodman ==
    /\ mainPc = "start" /\ pc = "v_podman"
    /\ queried' = TRUE
    /\ \/ \E cs \in ContainerLists : containers' = cs /\ pc' = "v_scan" /\ UNCHANGED exc
       \/ containers' = <<>> /\ pc' = "v_scan" /\ UNCHANGED exc
       \/ Raise("FileNotFoundError") /\ UNCHANGED containers
    /\ UNCHANGED <<nodes, override, fallback_n, notDiscovery>>

\* nodes = []; for container in containers: ...
DiscoverScan ==
    /\ mainPc = "start" /\ pc = "v_scan"
    /\ IF ScanRaises(containers)
          THEN Raise("TypeError") /\ UNCHANGED nodes
          ELSE nodes' = ScanContainers(containers) /\ pc' = "v_decide" /\ UNCHANGED exc
    /\ UNCHANGED <<discoveryVars, notDiscovery>>

\* if nodes: return nodes
\* return [("localhost", start + i) for i in range(fallback_n)]
DiscoverDecide ==
    /\ mainPc = "start" /\ pc = "v_decide"
    /\ nodes' = IF Truthy(nodes) THEN nodes ELSE LocalNodes(fallback_n)
    /\ pc' = "return"
    /\ UNCHANGED <<exc, discoveryVars, notDiscovery>>

----------------------------------------------------------------------------
(* main *)

NextOf(s) ==
    CASE s = "sql" -> "nosql"
      [] s = "nosql" -> "disconnect"
      [] s = "disconnect" -> "network1"
      [] s = "network1" -> "network2"
      [] s = "network2" -> "summary"

ResultVar(s) ==
    CASE s = "sql" -> "sql_ok"
      [] s = "nosql" -> "nosql_ok"
      [] s = "disconnect" -> "disconnect_ok"
      [] s = "network1" -> "network_ok"
      [] s = "network2" -> "network_ok"

FirstLabel(s) ==
    CASE s \in {"sql", "nosql"} -> "p_sessions"
      [] s = "disconnect" -> "d_choose"
      [] s \in {"network1", "network2"} -> "n_choose"

\* The locals of a scenario function before its first statement ran
FreshLocals ==
    /\ value' = None
    /\ readRows' = <<>>
    /\ success' = FALSE
    /\ inserted' = FALSE
    /\ idx' = 0
    /\ container_id' = None
    /\ writer' = 0
    /\ attempt' = 0
    /\ row' = None
    /\ cmds' = <<>>
    /\ count' = 0
    /\ now' = 0
    /\ start_time' = 0
    /\ elapsed' = 0
    /\ timeout' = <<0, 1>>
    /\ lastLatency' = 0
    /\ polled' = "no"
    /\ insertedRows' = 0
    /\ loop_start' = 0

\* if len(nodes) < 2
TooFewLoose(n) == n < 1
TooFew(n) == n < 2

\* nodes = discover_nodes(); if len(nodes) < 2: sys.exit(1)
MainDiscover ==
    /\ mainPc = "start"
    /\ IF TooFew(Len(nodes))
          THEN mainPc' = "exited" /\ exitCode' = <<1>>
          ELSE mainPc' = "sql" /\ UNCHANGED exitCode
    /\ UNCHANGED <<nodes, locals, traceback, summary, called, returned, raisedIn, discoveryVars, scriptVars, argVars, schemaVars>>
    /\ UNCHANGED <<pc, exc, ret, sessions, value, inserted, cmds, probeVars, faultVars, envVars, netVars>>

\* x_ok = scenario(nodes): the call
MainCall ==
    /\ mainPc \in ScenarioSet /\ exitCode = <<>> /\ pc = "idle"
    /\ called' = called \cup {mainPc}
    /\ pc' = FirstLabel(mainPc)
    /\ FreshLocals
    /\ rate' = ArgRate(mainPc)
    /\ UNCHANGED <<nodes, mainPc, locals, exitCode, traceback, summary, returned, raisedIn, discoveryVars, scriptVars>>
    /\ UNCHANGED <<exc, ret, sessions, envVars, schemaVars>>

\* x_ok = scenario(nodes): the assignment of the returned value, and the log line
MainAssign ==
    /\ mainPc \in ScenarioSet /\ exitCode = <<>> /\ pc = "return"
    /\ locals' = [n \in DOMAIN locals \cup {ResultVar(mainPc)} |->
                    IF n = ResultVar(mainPc) THEN ret ELSE locals[n]]
    /\ returned' = [s \in DOMAIN returned \cup {mainPc} |->
                    IF s = mainPc THEN ret ELSE returned[s]]
    /\ mainPc' = NextOf(mainPc)
    /\ pc' = "idle"
    /\ UNCHANGED <<nodes, exitCode, traceback, summary, called, raisedIn, discoveryVars, scriptVars, argVars, schemaVars>>
    /\ UNCHANGED <<exc, ret, sessions, value, inserted, cmds, probeVars, faultVars, envVars, netVars>>

\* main has no try/except: an exception leaving a scenario leaves main too,
\* and the interpreter prints the traceback and exits with status 1
MainUncaught ==
    /\ mainPc \in ScenarioSet /\ exitCode = <<>> /\ pc = "raise"
    /\ raisedIn' = raisedIn \cup {mainPc}
    /\ traceback' = TRUE
    /\ exitCode' = <<1>>
    /\ mainPc' = "exited"
    /\ UNCHANGED <<nodes, locals, summary, called, returned, discoveryVars, scriptVars, argVars, schemaVars>>
    /\ UNCHANGED <<pc, exc, ret, sessions, value, inserted, cmds, probeVars, faultVars, envVars, netVars>>

AllPassed == locals["sql_ok"] /\ locals["nosql_ok"] /\ locals["disconnect_ok"] /\ locals["network_ok"]

\* if all([sql_ok, nosql_ok, disconnect_ok, network_ok]): sys.exit(0) ... sys.exit(1)
MainSummary ==
    /\ mainPc = "summary" /\ exitCode = <<>>
    /\ IF AllPassed
          THEN summary' = "passed" /\ exitCode' = <<0>>
          ELSE summary' = "failed" /\ exitCode' = <<1>>
    /\ mainPc' = "exited"
    /\ UNCHANGED <<nodes, locals, traceback, called, returned, raisedIn, discoveryVars, scriptVars, argVars, schemaVars>>
    /\ UNCHANGED <<pc, exc, ret, sessions, value, inserted, cmds, probeVars, faultVars, envVars, netVars>>

----------------------------------------------------------------------------
(* replication_tests.py: the single-file script.  Its sql_test and           *)
(* nosql_test make the same calls in the same order as the package's, so the *)
(* probe actions above stand for them; its main flow differs.                *)

ScriptScenarios == {"sql", "nosql"}

ScriptNextOf(s) == IF s = "sql" THEN "nosql" ELSE "summary"

\* overall_ok &= result, with overall_ok = result in its place
Assign(a, b) == b
AndAssign(a, b) == a /\ b

\* all_nodes = discover_nodes()
\* if len(all_nodes) < 2: sys.exit("... Need at least two Cassandra nodes running")
\* overall_ok = True
ScriptDiscover ==
    /\ mainPc = "start"
    /\ IF TooFew(Len(nodes))
          THEN mainPc' = "exited" /\ exitCode' = <<1>>
          ELSE mainPc' = "sql" /\ UNCHANGED exitCode
    /\ overall_ok' = TRUE
    /\ UNCHANGED <<nodes, locals, traceback, summary, called, returned, raisedIn, discoveryVars, skips, argVars, schemaVars>>
    /\ UNCHANGED <<pc, exc, ret, sessions, value, inserted, cmds, probeVars, faultVars, envVars, netVars>>

\* if not os.getenv("SKIP_SQL"): ... sql_test(all_nodes): the call
ScriptCall ==
    /\ mainPc \in ScriptScenarios /\ exitCode = <<>> /\ pc = "idle"
    /\ mainPc \notin skips
    /\ called' = called \cup {mainPc}
    /\ pc' = FirstLabel(mainPc)
    /\ FreshLocals
    /\ UNCHANGED <<nodes, mainPc, locals, exitCode, traceback, summary, returned, raisedIn, discoveryVars, scriptVars, argVars, schemaVars>>
    /\ UNCHANGED <<exc, ret, sessions, envVars>>

\* else: log("[SQL test skipped]")
ScriptSkip ==
    /\ mainPc \in ScriptScenarios /\ exitCode = <<>> /\ pc = "idle"
    /\ mainPc \in skips
    /\ mainPc' = ScriptNextOf(mainPc)
    /\ UNCHANGED <<nodes, locals, exitCode, traceback, summary, called, returned, raisedIn, discoveryVars, scriptVars, argVars, schemaVars>>
    /\ UNCHANGED <<pc, exc, ret, sessions, value, inserted, cmds, probeVars, faultVars, envVars, netVars>>

\* overall_ok &= sql_test(all_nodes): the update with the returned value
ScriptAssign ==
    /\ mainPc \in ScriptScenarios /\ exitCode = <<>> /\ pc = "return"
    /\ overall_ok' = AndAssign(overall_ok, ret)
    /\ returned' = [s \in DOMAIN returned \cup {mainPc} |->
                    IF s = mainPc THEN ret ELSE returned[s]]
    /\ mainPc' = ScriptNextOf(mainPc)
    /\ pc' = "idle"
    /\ UNCHANGED <<nodes, locals, exitCode, traceback, summary, called, raisedIn, discoveryVars, skips, argVars, schemaVars>>
    /\ UNCHANGED <<exc, ret, sessions, value, inserted, cmds, probeVars, faultVars, envVars, netVars>>

\* no try/except around the calls: an exception ends the script with a
\* traceback and status 1
ScriptUncaught ==
    /\ mainPc \in ScriptScenarios /\ exitCode = <<>> /\ pc = "raise"
    /\ raisedIn' = raisedIn \cup {mainPc}
    /\ traceback' = TRUE
    /\ exitCode' = <<1>>
    /\ mainPc' = "exited"
    /\ UNCHANGED <<nodes, locals, summary, called, returned, discoveryVars, scriptVars, argVars, schemaVars>>
    /\ UNCHANGED <<pc, exc, ret, sessions, value, inserted, cmds, probeVars, faultVars, envVars, netVars>>

\* if overall_ok: ... sys.exit(0) else: ... sys.exit(1)
ScriptExit ==
    /\ mainPc = "summary" /\ exitCode = <<>>
    /\ summary' = IF overall_ok THEN "passed" ELSE "failed"
    /\ exitCode' = IF overall_ok THEN <<0>> ELSE <<1>>
    /\ mainPc' = "exited"
    /\ UNCHANGED <<nodes, locals, traceback, called, returned, raisedIn, discoveryVars, scriptVars, argVars, schemaVars>>
    /\ UNCHANGED <<pc, exc, ret, sessions, value, inserted, cmds, probeVars, faultVars, envVars, netVars>>

----------------------------------------------------------------------------
(* Properties *)

\* The running scenario has ended: its return statement ran, or an exception left it
Returned(s) == InScenario(s) /\ pc = "return"
Ended(s) == InScenario(s) /\ pc \in {"return", "raise"}
PassedDiscovery == Len(nodes) >= 2

\* C1: in the disconnect/reconnect scenario, once the pause command was issued
\* for a container, an unpause command for that container has been issued by
\* the time the scenario returns, whichever return statement it takes.
C1_UnpauseBeforeReturn ==
    Returned("disconnect") =>
        \A i \in At(<<"pause", container_id>>) :
            \E j \in At(<<"unpause", container_id>>) : i < j

\* C2: in the throttled-bandwidth scenario, once the shaping rule was installed
\* on a container, the command removing it has been issued by the time the
\* scenario ends, by a return or by an exception.
C2_RuleRemovedAtEnd ==
    (Ended("network1") \/ Ended("network2")) =>
        \A i \in At(<<"installed", container_id>>) :
            \E j \in At(<<"tc_del", container_id>>) : i < j

\* C3: the exit code of a run that passed discovery is 0 if and only if every
\* scenario invocation main started returned true (so it is 1 when either
\* network-limit invocation returned false).
C3_ExitZeroIffAllPassed ==
    (mainPc = "exited" /\ PassedDiscovery) =>
        (exitCode = <<0>> <=> \A s \in called : s \in DOMAIN returned /\ returned[s])

\* C4: the throttled-bandwidth scenario returns true only when the poll loop
\* saw count >= rows within the timeout, and false when the loop ran out of time.
C4_FalseWhenNotConverged ==
    (Returned("network1") \/ Returned("network2")) =>
        (ret <=> polled = "converged")

\* C5: a baseline probe has read every reader once when it returns, and it
\* returns true if and only if every reader returned a row whose payload
\* equals the written payload.
C5_ProbeTrueIffAllReadersMatch ==
    (Returned("sql") \/ Returned("nosql")) =>
        /\ Len(readRows) = Len(nodes) - 1
        /\ ret <=> \A k \in 1..Len(readRows) : readRows[k] # None /\ readRows[k] = value

\* C5 witness: a probe over two readers returned false because one reader
\* held a different payload while the other matched.
C5_Witness ==
    /\ Returned("sql")
    /\ Len(readRows) = 2
    /\ readRows[1] = value
    /\ readRows[2] # None /\ readRows[2] # value
    /\ ret = FALSE

\* C6: a run that passed discovery has started all five scenario invocations
\* by the time it exits, whatever happened in the earlier ones.
C6_EveryScenarioAttempted ==
    (mainPc = "exited" /\ PassedDiscovery) => called = ScenarioSet

\* C7: an exception leaving a scenario is turned into a false result of that
\* scenario, and the run still ends with the summary line.
C7_ErrorsBecomeFailedResults ==
    (mainPc = "exited" /\ PassedDiscovery) =>
        /\ summary # "none"
        /\ \A s \in raisedIn : s \in DOMAIN returned /\ ~returned[s]

\* C8: in the disconnect/reconnect scenario the insert is issued after the
\* pause and before the unpause, the paused node is neither connected to nor
\* read before the unpause, and the scenario returns a result only after the
\* node it paused was unpaused.
C8_PhaseOrder ==
    InScenario("disconnect") =>
        /\ \A i \in At(<<"insert", writer>>) :
            /\ \E p \in At(<<"pause", container_id>>) : p < i
            /\ \A u \in At(<<"unpause", container_id>>) : i < u
        /\ \A i \in At(<<"connect", idx>>) \cup At(<<"read", idx>>) :
            \E u \in At(<<"unpause", container_id>>) : u < i
        /\ (pc = "return" /\ Issued(<<"pause", container_id>>)) =>
            Issued(<<"unpause", container_id>>)

\* The poll loop has just issued a read
AfterPollRead ==
    (InScenario("network1") \/ InScenario("network2"))
        /\ (pc = "n_sleep" \/ (pc = "n_cleanup" /\ polled = "converged"))

\* The poll loop is at its guard, or has left by it
AtPollGuard ==
    (InScenario("network1") \/ InScenario("network2"))
        /\ (pc = "n_poll" \/ polled = "timedout")

\* C9 as stated: the poll loop issues a read only while elapsed < timeout, and
\* with a count that never reaches rows it is over within timeout + 1 second
\* of entering the loop.
C9_EndsWithinTimeoutPlusInterval ==
    /\ AfterPollRead => elapsed * timeout[2] < timeout[1]
    /\ AtPollGuard =>
        (now - loop_start) * timeout[2] <= timeout[1] + PollInterval * timeout[2]

\* C9 amended: the poll loop issues a read only while elapsed < timeout; every
\* time it comes back to its guard, and so when it leaves by it, less than
\* timeout + 1 second + the duration of the last read have passed since the
\* loop was entered; and every pass through the loop advances elapsed by at
\* least the 1 second slept, so the loop cannot go round for ever.
C9_PollLoopBounded ==
    /\ [](AfterPollRead => elapsed * timeout[2] < timeout[1])
    /\ [](AtPollGuard =>
            (now - loop_start - PollInterval - lastLatency) * timeout[2] < timeout[1])
    /\ [][pc = "n_sleep" => elapsed' >= elapsed + PollInterval]_vars

\* C9 witness: the loop left by its guard more than timeout + 1 second after
\* it was entered, the last read having taken a second.
C9_Witness ==
    /\ InScenario("network1")
    /\ polled = "timedout"
    /\ lastLatency = 1
    /\ (now - loop_start) * timeout[2] > timeout[1] + PollInterval * timeout[2]

\* C10: no session opened by a scenario is still open when the scenario ends,
\* by a return or by an exception.
C10_SessionsClosedAtEnd ==
    \A s \in ScenarioSet : Ended(s) => sessions = {}


\* C11 (as stated): after the resume the disconnect scenario polls, so a
\* read of the resumed node that did not return the written row is followed
\* by another read before the scenario reports its result.
C11_MismatchFollowedByAnotherRead ==
    (Returned("disconnect") /\ Issued(<<"read", idx>>) /\ Mismatch(row, value[1])) =>
        Cardinality(At(<<"read", idx>>)) > 1

\* C12: once the resumed node has been read, the disconnect scenario returns
\* (it never raises out of the verification), a timed-out read included, and
\* the value it returns is true exactly when the row read equals the written
\* value.
C12_ResumedReadDecidesResult ==
    /\ (InScenario("disconnect") /\ pc = "raise") =>
           (~Issued(<<"read_timeout", idx>>) /\ exc # "TypeError")
    /\ (Returned("disconnect") /\ Issued(<<"read", idx>>)) =>
           (ret <=> (row # None /\ row = value))

\* C12 witness: the read of the resumed node timed out and the scenario
\* returned false.
C12_Witness ==
    /\ Returned("disconnect")
    /\ Issued(<<"read_timeout", idx>>)
    /\ row = None
    /\ ret = FALSE

\* C13: a probe reads every reader node (every node but the first) at most
\* once at any time, and exactly once by the time it returns, also when an
\* earlier reader did not match.
C13_EachReaderReadOnce ==
    /\ InProbe =>
           \A i \in 1..Len(nodes) : Cardinality(At(<<"read", i>>)) <= 1
    /\ (Returned("sql") \/ Returned("nosql")) =>
           /\ At(<<"read", 1>>) = {}
           /\ \A i \in 2..Len(nodes) : Cardinality(At(<<"read", i>>)) = 1

\* C13 witness: the first of two readers did not match and the second one
\* was read all the same.
C13_Witness ==
    /\ Returned("nosql")
    /\ Len(readRows) = 2
    /\ Mismatch(readRows[1], value[1])
    /\ Cardinality(At(<<"read", 3>>)) = 1

\* C14: in a probe no reader is read before the insert was acknowledged; a
\* probe whose insert failed reads no reader at all.
C14_NoReadBeforeInsertAck ==
    InProbe =>
        /\ (\E i \in 1..Len(nodes) : Issued(<<"read", i>>)) => inserted
        /\ (pc = "raise" /\ ~inserted) => (readRows = <<>> /\ cmds = <<>>)

\* C14 witness: the insert of a probe over several nodes failed and the probe
\* ended without a read.
C14_Witness ==
    /\ InScenario("sql")
    /\ Len(nodes) = 3
    /\ pc = "raise"
    /\ value # <<>>
    /\ ~inserted
    /\ readRows = <<>>


\* C16: a run that discovered fewer than two nodes calls no scenario, opens
\* no session, writes nothing, issues no pause or throttle command, and ends
\* with exit code 1 (by sys.exit, without a traceback).
C16_TooFewNodesExitsBeforeAnything ==
    Len(nodes) < 2 =>
        /\ called = {} /\ returned = <<>> /\ pc = "idle"
        /\ sessions = {} /\ ~inserted /\ value = None
        /\ cmds = <<>> /\ shaped = {}
        /\ mainPc \in {"start", "exited"}
        /\ mainPc = "exited" => (exitCode = <<1>> /\ ~traceback /\ summary = "none")

\* C16 witness: a run over one node has exited with code 1.
C16_Witness ==
    /\ Len(nodes) = 1
    /\ mainPc = "exited"
    /\ exitCode = <<1>>

\* C17 (as stated): the allow-list of an open session to a node admits no
\* other discovered node, node lists sharing one host included.
C17_AllowListAdmitsOnlyItsNode ==
    \A i \in sessions : \A j \in 1..Len(nodes) :
        Admits(SessionOf(i), nodes[j]) => j = i

\* C18 (as stated): a node carries at most one shaping rule, and an install
\* command is never issued for a node whose previous rule was not removed:
\* wherever the install command has been issued and refused, the node did not
\* carry a rule left by an earlier invocation.
C18_NoInstallOverLeftoverRule ==
    (InNetwork /\ Issued(<<"tc_add", container_id>>)
               /\ ~Issued(<<"installed", container_id>>)) =>
        container_id \notin shaped


\* The nodes an entry list stands for: each entry's host, and its port or
\* 9042 where the entry has none
NodesOf(es) ==
    [i \in 1..Len(es) |-> <<es[i][1], IF Len(es[i]) = 1 THEN DefaultPort ELSE es[i][2]>>]

\* C15: for an override made of k >= 2 comma-separated host[:port] entries,
\* discover_nodes returns (it does not raise, at any point of the call) and
\* the list it returns has exactly k nodes, in the order of the entries,
\* each with its entry's host and port, port 9042 where the port is omitted.
C15_OverrideParsedInOrder ==
    (pc \in {"raise", "return"} /\ override # <<>>) =>
        \A es \in EntryLists :
            (Len(es) >= 2 /\ override = Render(es)) =>
                (pc = "return" /\ Len(nodes) = Len(es) /\ nodes = NodesOf(es))

\* C15 witness: a three-entry override mixing entries with and without a
\* port has been parsed.
C15_Witness ==
    /\ pc = "return"
    /\ override = Render(<< <<(<<"d", "b">>)>>, <<(<<"d", "b">>), 19042>>,
                            <<(<<"1", "0", ".", "0", ".", "0", ".", "7">>)>> >>)
    /\ Len(nodes) = 3
    /\ nodes[1][2] = DefaultPort
    /\ nodes[2][2] = 19042

\* The containers discovery is meant to pick: named *cassandra* (in any
\* case) and publishing 9042/tcp on a host port
Publishing(c) ==
    {k \in 1..Len(c.Ports[1]) :
        /\ c.Ports[1][k].container_port = DefaultPort
        /\ c.Ports[1][k].protocol = "tcp"
        /\ "host_port" \in DOMAIN c.Ports[1][k]
        /\ c.Ports[1][k].host_port # 0}
Matching(cs) ==
    {i \in 1..Len(cs) : IsCassandra(cs[i]) /\ Publishing(cs[i]) # {}}
NodeOfContainer(c) ==
    <<Localhost, c.Ports[1][CHOOSE k \in Publishing(c) : \A j \in Publishing(c) : k <= j].host_port>>

SkippedNotExecuted ==
    /\ called \cap skips = {}
    /\ skips = ScriptScenarios => (sessions = {} /\ ~inserted /\ value = None /\ pc = "idle")

\* Every scenario that is not skipped returned true
AllExecutedPassed ==
    \A s \in ScriptScenarios \ skips : s \in DOMAIN returned /\ returned[s]

\* C20 (as stated): a skipped scenario is not executed, and the exit code is
\* 0 iff every non-skipped scenario returned true, so that a run skipping
\* every scenario exits 0.
C20_ExitZeroIffExecutedPassed ==
    /\ SkippedNotExecuted
    /\ mainPc = "exited" => (exitCode = <<0>> <=> AllExecutedPassed)

\* C20 (amended): a skipped scenario is not executed, and in a run that
\* discovered at least two nodes the exit code is 0 iff every non-skipped
\* scenario returned true, so that such a run skipping every scenario exits
\* 0; a run that discovered fewer than two nodes exits 1 whatever is skipped.
C20_ExitZeroIffExecutedPassedAfterDiscovery ==
    /\ SkippedNotExecuted
    /\ (mainPc = "exited" /\ PassedDiscovery) => (exitCode = <<0>> <=> AllExecutedPassed)
    /\ (mainPc = "exited" /\ ~PassedDiscovery) => exitCode = <<1>>

\* C20 witness: a run over two nodes with both scenarios skipped has exited 0
\* without calling a scenario.
C20_Witness ==
    /\ mainPc = "exited"
    /\ Len(nodes) = 2
    /\ skips = ScriptScenarios
    /\ called = {}
    /\ exitCode = <<0>>


\* The nodes of the list are pairwise distinct (host, port) pairs
DistinctNodes == \A i, j \in 1..Len(nodes) : nodes[i] = nodes[j] => i = j

\* C21 (as stated): over a list of at least two distinct nodes, a fault
\* scenario that has chosen its writer chose an existing node other than the
\* faulted one, and the writer selection never fails for lack of a candidate.
C21_WriterExistsAndIsNotFaulted ==
    (DistinctNodes /\ Len(nodes) >= 2) =>
        /\ ((InScenario("disconnect") \/ InNetwork) /\ writer # 0) =>
               (writer \in 1..Len(nodes) /\ writer # idx /\ nodes[writer] # nodes[idx])
        /\ ~(InScenario("disconnect") /\ pc = "raise" /\ exc = "IndexError")


\* The retried statements of the disconnect scenario, and the positions the
\* scenario can be at between the success of each and the next logged call
RetrySteps == {"keyspace", "table", "insert"}
AfterStep(e) ==
    CASE e = "keyspace" -> {"d_set_keyspace", "d_table"}
      [] e = "table" -> {"d_prepare", "d_insert"}
      [] e = "insert" -> {"d_unpause"}

\* Positions in the log where statement e timed out twice in a row
TwoTimeouts(e) ==
    {i \in 1..(Len(cmds) - 3) :
        /\ cmds[i] = <<e, writer>> /\ cmds[i + 1] = <<"timeout", writer>>
        /\ cmds[i + 2] = <<e, writer>> /\ cmds[i + 3] = <<"timeout", writer>>}

\* C22: in the disconnect scenario each of CREATE KEYSPACE, CREATE TABLE and
\* the INSERT is attempted at most twice; an attempt that succeeded, the
\* first or the second, leaves the scenario going on to the next step; two timeouts
\* in a row of one statement are the last thing the scenario did before it
\* returned false with the writer session shut down.
C22_RetriedAtMostTwice ==
    InScenario("disconnect") =>
        \A e \in RetrySteps :
            /\ Cardinality(At(<<e, writer>>)) <= 2
            /\ (cmds # <<>> /\ cmds[Len(cmds)] = <<e, writer>> /\ pc # "raise") =>
                   pc \in AfterStep(e)
            /\ \A i \in TwoTimeouts(e) :
                   /\ i + 3 = Len(cmds)
                   /\ pc = "return" /\ ret = FALSE
                   /\ writer \notin sessions

\* C22 witness: the keyspace was created on the second attempt, the table on
\* the first, and the insert timed out twice: the scenario returned false.
C22_Witness ==
    /\ Returned("disconnect")
    /\ Cardinality(At(<<"keyspace", writer>>)) = 2
    /\ Cardinality(At(<<"table", writer>>)) = 1
    /\ TwoTimeouts("insert") # {}
    /\ ret = FALSE


\* C23: once the removal of the shaping rule has failed in the throttled
\* scenario (the warning was logged), the scenario does not raise, it goes on
\* to shut both sessions down, and it returns what it returns when the
\* removal succeeds: true.
C23_RemovalFailureOnlyWarns ==
    (InNetwork /\ pc # "idle" /\ Issued(<<"warning", container_id>>)) =>
        /\ pc \in {"n_shutdown", "return"}
        /\ pc = "return" => (ret = TRUE /\ writer \notin sessions /\ idx \notin sessions)

\* C23 witness: the removal failed, the rule is still on the node, and the
\* scenario has returned true with no session left open.
C23_Witness ==
    /\ Returned("network1")
    /\ Issued(<<"warning", container_id>>)
    /\ container_id \in shaped
    /\ ret = TRUE
    /\ sessions = {}


\* A fault scenario has returned because its fault could not be injected: no
\* container was found for the chosen node, or the install command failed
NotInjected ==
    \/ /\ Returned("disconnect") /\ idx # 0 /\ container_id = None
    \/ /\ InNetwork /\ pc = "return" /\ idx # 0
       /\ \/ container_id = None
          \/ container_id # None /\ ~Issued(<<"installed", container_id>>)

SupportedRate == UnitOf(rate) = Kbit /\ LeadingDigits(rate) >= 1
                    /\ DecimalValue(SubSeq(rate, 1, LeadingDigits(rate))) >= 1
RateNumber == DecimalValue(SubSeq(rate, 1, LeadingDigits(rate)))

\* The throttled scenario has computed its timeout
TimeoutComputed ==
    InNetwork /\ pc \in {"n_poll", "n_sleep", "n_cleanup", "n_shutdown"}

\* C25 (as stated): for a rate <n>kbit with n >= 1 the timeout is the
\* payload, rows * value_size bytes, divided by the throttled rate in bytes
\* per second, plus the 10 second margin, and so never below the margin.
C25_TimeoutIsPayloadOverRatePlusMargin ==
    (TimeoutComputed /\ SupportedRate) =>
        /\ timeout[1] * (RateNumber * TcBytesPerKbit)
              = (Rows * ValueSize + Margin * RateNumber * TcBytesPerKbit) * timeout[2]
        /\ timeout[1] >= Margin * timeout[2]

\* C26 (as stated): with a rate whose unit is not kbit the throttled scenario
\* never gets to compute a timeout from it and to return true, and when the
\* rate text makes it fail (int() raising ValueError) the node it chose
\* carries no shaping rule.
C26_UnsupportedUnitIsAnError ==
    (InNetwork /\ rate # <<>> /\ UnitOf(rate) # Kbit) =>
        /\ ~TimeoutComputed
        /\ ~(pc = "return" /\ ret = TRUE)
        /\ (pc = "raise" /\ exc = "ValueError") => container_id \notin shaped

----------------------------------------------------------------------------

Init ==
    /\ nodes \in NodeLists
    /\ mainPc = "start"
    /\ locals = <<>>
    /\ exitCode = <<>>
    /\ traceback = FALSE
    /\ summary = "none"
    /\ called = {}
    /\ returned = <<>>
    /\ raisedIn = {}
    /\ pc = "idle"
    /\ exc = ""
    /\ ret = FALSE
    /\ sessions = {}
    /\ value = None
    /\ readRows = <<>>
    /\ success = FALSE
    /\ inserted = FALSE
    /\ idx = 0
    /\ container_id = None
    /\ writer = 0
    /\ attempt = 0
    /\ row = None
    /\ cmds = <<>>
    /\ shaped = {}
    /\ count = 0
    /\ now = 0
    /\ start_time = 0
    /\ elapsed = 0
    /\ timeout = <<0, 1>>
    /\ lastLatency = 0
    /\ polled = "no"
    /\ insertedRows = 0
    /\ loop_start = 0
    /\ override = <<>>
    /\ fallback_n = 0
    /\ containers = <<>>
    /\ queried = FALSE
    /\ skips = {}
    /\ overall_ok = TRUE
    /\ rate = <<>>
    /\ db = NoKeyspace
    /\ execution = 0
    /\ dbBefore = NoKeyspace

Next ==
    \/ MainDiscover
    \/ MainCall
    \/ MainAssign
    \/ MainUncaught
    \/ MainSummary
    \/ ProbeMakeSession
    \/ ProbeCreateKeyspace
    \/ ProbeSetKeyspace
    \/ ProbeCreateTable
    \/ ProbeInsert
    \/ ProbeRead
    \/ ProbeShutdown
    \/ DiscChoose
    \/ DiscPause
    \/ DiscWriter
    \/ DiscCreateKeyspace
    \/ DiscSetKeyspace
    \/ DiscCreateTable
    \/ DiscPrepare
    \/ DiscInsert
    \/ DiscUnpause
    \/ DiscMakeResumed
    \/ DiscResumedSetup
    \/ DiscRead
    \/ DiscVerify
    \/ NetChoose
    \/ NetThrottle
    \/ NetWriter
    \/ NetCreateKeyspace
    \/ NetSetKeyspace
    \/ NetDropTable
    \/ NetCreateTable
    \/ NetInsert
    \/ NetReader
    \/ NetReaderSetup
    \/ NetTimeout
    \/ NetPollRead
    \/ NetPollSleep
    \/ NetPollExit
    \/ NetCleanup
    \/ NetShutdown

Spec == Init /\ [][Next]_vars

\* discover_nodes on its own: called with any environment and fallback_n
InitDiscovery ==
    /\ override \in Overrides
    /\ fallback_n \in 0..MaxFallback
    /\ containers = <<>>
    /\ queried = FALSE
    /\ nodes = <<>>
    /\ pc = "v_env"
    /\ mainPc = "start"
    /\ locals = <<>>
    /\ exitCode = <<>>
    /\ traceback = FALSE
    /\ summary = "none"
    /\ called = {}
    /\ returned = <<>>
    /\ raisedIn = {}
    /\ exc = ""
    /\ ret = FALSE
    /\ sessions = {}
    /\ value = None
    /\ readRows = <<>>
    /\ success = FALSE
    /\ inserted = FALSE
    /\ idx = 0
    /\ container_id = None
    /\ writer = 0
    /\ attempt = 0
    /\ row = None
    /\ cmds = <<>>
    /\ shaped = {}
    /\ count = 0
    /\ now = 0
    /\ start_time = 0
    /\ elapsed = 0
    /\ timeout = <<0, 1>>
    /\ lastLatency = 0
    /\ polled = "no"
    /\ insertedRows = 0
    /\ loop_start = 0
    /\ skips = {}
    /\ overall_ok = TRUE
    /\ rate = <<>>
    /\ db = NoKeyspace
    /\ execution = 0
    /\ dbBefore = NoKeyspace

NextDiscovery ==
    \/ DiscoverOverride
    \/ DiscoverPodman
    \/ DiscoverScan
    \/ DiscoverDecide

SpecDiscovery == InitDiscovery /\ [][NextDiscovery]_vars

\* replication_tests.py run with any setting of SKIP_SQL and SKIP_NOSQL
InitScript ==
    /\ nodes \in NodeLists
    /\ skips \in SUBSET ScriptScenarios
    /\ overall_ok = TRUE
    /\ mainPc = "start"
    /\ locals = <<>>
    /\ exitCode = <<>>
    /\ traceback = FALSE
    /\ summary = "none"
    /\ called = {}
    /\ returned = <<>>
    /\ raisedIn = {}
    /\ pc = "idle"
    /\ exc = ""
    /\ ret = FALSE
    /\ sessions = {}
    /\ value = None
    /\ readRows = <<>>
    /\ success = FALSE
    /\ inserted = FALSE
    /\ idx = 0
    /\ container_id = None
    /\ writer = 0
    /\ attempt = 0
    /\ row = None
    /\ cmds = <<>>
    /\ shaped = {}
    /\ count = 0
    /\ now = 0
    /\ start_time = 0
    /\ elapsed = 0
    /\ timeout = <<0, 1>>
    /\ lastLatency = 0
    /\ polled = "no"
    /\ insertedRows = 0
    /\ loop_start = 0
    /\ override = <<>>
    /\ fallback_n = 0
    /\ containers = <<>>
    /\ queried = FALSE
    /\ rate = <<>>
    /\ db = NoKeyspace
    /\ execution = 0
    /\ dbBefore = NoKeyspace

NextScript ==
    \/ ScriptDiscover
    \/ ScriptCall
    \/ ScriptSkip
    \/ ScriptAssign
    \/ ScriptUncaught
    \/ ScriptExit
    \/ ProbeMakeSession
    \/ ProbeCreateKeyspace
    \/ ProbeSetKeyspace
    \/ ProbeCreateTable
    \/ ProbeInsert
    \/ ProbeRead
    \/ ProbeShutdown

SpecScript == InitScript /\ [][NextScript]_vars

\* network_limit_test on its own: called over at least two nodes with any of
\* the rate arguments
InitNetwork ==
    /\ nodes \in {LocalNodes(n) : n \in 2..MaxNodes}
    /\ rate \in Rates
    /\ db = NoKeyspace
    /\ execution = 0
    /\ dbBefore = NoKeyspace
    /\ mainPc = "network1"
    /\ pc = "n_choose"
    /\ called = {"network1"}
    /\ locals = <<>>
    /\ exitCode = <<>>
    /\ traceback = FALSE
    /\ summary = "none"
    /\ returned = <<>>
    /\ raisedIn = {}
    /\ exc = ""
    /\ ret = FALSE
    /\ sessions = {}
    /\ value = None
    /\ readRows = <<>>
    /\ success = FALSE
    /\ inserted = FALSE
    /\ idx = 0
    /\ container_id = None
    /\ writer = 0
    /\ attempt = 0
    /\ row = None
    /\ cmds = <<>>
    /\ shaped = {}
    /\ count = 0
    /\ now = 0
    /\ start_time = 0
    /\ elapsed = 0
    /\ timeout = <<0, 1>>
    /\ lastLatency = 0
    /\ polled = "no"
    /\ insertedRows = 0
    /\ loop_start = 0
    /\ override = <<>>
    /\ fallback_n = 0
    /\ containers = <<>>
    /\ queried = FALSE
    /\ skips = {}
    /\ overall_ok = TRUE

\* The scenarios with a schema setup; network_limit_test stands once for its
\* two invocations
SetupScenarios == {"sql", "nosql", "disconnect", "network1"}

\* network_limit_test drops kv and creates it without IF NOT EXISTS; the other
\* scenarios create it with IF NOT EXISTS
DropsTable(s) == s = "network1"

notSchema == <<nodes, mainPc, locals, exitCode, traceback, summary, called, returned, raisedIn,
               discoveryVars, scriptVars, argVars, ret, sessions, value, inserted, cmds,
               probeVars, faultVars, envVars, netVars>>

\* execute(CREATE KEYSPACE IF NOT EXISTS ...) and set_keyspace(...)
SchemaCreateKeyspace ==
    /\ mainPc \in SetupScenarios /\ pc = "s_keyspace"
    /\ db' = CreateKeyspaceIfNotExists(db)
    /\ pc' = IF DropsTable(mainPc) THEN "s_drop" ELSE "s_table"
    /\ UNCHANGED <<execution, dbBefore, exc, notSchema>>

\* writer_session.execute("DROP TABLE IF EXISTS kv")
SchemaDropTable ==
    /\ mainPc \in SetupScenarios /\ pc = "s_drop"
    /\ db' = DropTableIfExists(db)
    /\ pc' = "s_table"
    /\ UNCHANGED <<execution, dbBefore, exc, notSchema>>

\* execute(CREATE TABLE [IF NOT EXISTS] kv ...): without IF NOT EXISTS an
\* existing table is an AlreadyExists error
SchemaCreateTable ==
    /\ mainPc \in SetupScenarios /\ pc = "s_table"
    /\ IF DropsTable(mainPc) /\ db.table # None
          THEN Raise("AlreadyExists") /\ UNCHANGED db
          ELSE /\ db' = CreateTable(db)
               /\ pc' = IF execution = 1 THEN "s_rows" ELSE "s_done"
               /\ UNCHANGED exc
    /\ UNCHANGED <<execution, dbBefore, notSchema>>

\* The inserts of the scenario store rows in kv; then the setup is executed a
\* second time
SchemaInsert ==
    /\ mainPc \in SetupScenarios /\ pc = "s_rows"
    /\ \E k \in 0..(MaxStored - db.table[1]) :
          /\ db' = StoreRows(db, k)
          /\ dbBefore' = StoreRows(db, k)
    /\ execution' = 2
    /\ pc' = "s_keyspace"
    /\ UNCHANGED <<exc, notSchema>>

\* The schema setup of each scenario, executed twice in sequence against
\* every database it can find
InitSchema ==
    /\ nodes = LocalNodes(2)
    /\ mainPc \in SetupScenarios
    /\ db \in Databases
    /\ dbBefore = db
    /\ execution = 1
    /\ pc = "s_keyspace"
    /\ rate = <<>>
    /\ called = {}
    /\ locals = <<>>
    /\ exitCode = <<>>
    /\ traceback = FALSE
    /\ summary = "none"
    /\ returned = <<>>
    /\ raisedIn = {}
    /\ exc = ""
    /\ ret = FALSE
    /\ sessions = {}
    /\ value = None
    /\ readRows = <<>>
    /\ success = FALSE
    /\ inserted = FALSE
    /\ idx = 0
    /\ container_id = None
    /\ writer = 0
    /\ attempt = 0
    /\ row = None
    /\ cmds = <<>>
    /\ shaped = {}
    /\ count = 0
    /\ now = 0
    /\ start_time = 0
    /\ elapsed = 0
    /\ timeout = <<0, 1>>
    /\ lastLatency = 0
    /\ polled = "no"
    /\ insertedRows = 0
    /\ loop_start = 0
    /\ override = <<>>
    /\ fallback_n = 0
    /\ containers = <<>>
    /\ queried = FALSE
    /\ skips = {}
    /\ overall_ok = TRUE

NextSchema ==
    \/ SchemaCreateKeyspace
    \/ SchemaDropTable
    \/ SchemaCreateTable
    \/ SchemaInsert

SpecSchema == InitSchema /\ [][NextSchema]_vars

NextNetwork ==
    \/ NetChoose
    \/ NetThrottle
    \/ NetWriter
    \/ NetCreateKeyspace
    \/ NetSetKeyspace
    \/ NetDropTable
    \/ NetCreateTable
    \/ NetInsert
    \/ NetReader
    \/ NetReaderSetup
    \/ NetTimeout
    \/ NetPollRead
    \/ NetPollSleep
    \/ NetPollExit
    \/ NetCleanup
    \/ NetShutdown

SpecNetwork == InitNetwork /\ [][NextNetwork]_vars

\* C27: the schema setup of every scenario is idempotent: executed a second
\* time in sequence it raises no error, and when it is done the keyspace, the
\* table and the rows stored in it are as they were before it began.
C27_SecondSetupChangesNothing ==
    (mainPc \in SetupScenarios /\ execution = 2) =>
        /\ pc # "raise"
        /\ pc = "s_done" => db = dbBefore

\* C27, amended: executed a second time in sequence the schema setup of a
\* scenario raises no error; in the probes and the disconnect scenario it
\* leaves the keyspace, the table and its rows as they were, and in the
\* throttled scenario, which drops the table before creating it, it leaves
\* the keyspace with an empty table.
C27_SecondSetupKeepsOrResets ==
    (mainPc \in SetupScenarios /\ execution = 2) =>
        /\ pc # "raise"
        /\ (pc = "s_done" /\ ~DropsTable(mainPc)) => db = dbBefore
        /\ (pc = "s_done" /\ DropsTable(mainPc)) =>
              db = [keyspace |-> TRUE, table |-> <<0>>]

\* The throttled scenario's setup was executed a second time over a table
\* holding rows, and left it empty
C27_Witness ==
    /\ mainPc = "network1"
    /\ execution = 2 /\ pc = "s_done"
    /\ dbBefore.table # None /\ dbBefore.table[1] > 0
    /\ db.table = <<0>>
====
